---- MODULE Spec2Model ----
(***************************************************************************)
(* Model of the island-world evolution loop of                             *)
(* CodeAndNotebooks/evolve_island_world_gmd2106.ipynb.                     *)
(*                                                                         *)
(* The notebook is one sequential script.  Its state is the set of numpy   *)
(* arrays it keeps on the two grids (elevation z, thickness, cum_subs,     *)
(* cum_depo, load, deflection, node status ...) and its scalars            *)
(* (current_sea_level, the sea_level list, the plot/save counters).  One   *)
(* action stands for one block ("phase") of the loop body; pc names the    *)
(* block that runs next.                                                   *)
(*                                                                         *)
(* The grid is a transect of NumNodes nodes, node n adjacent to n-1 and    *)
(* n+1, whose two end nodes are the open boundary (perimeter).  Heights    *)
(* are integers (one unit = 1 m), time is counted in time steps (dt = 1).  *)
(* The Landlab components the notebook calls are not part of the           *)
(* repository; each is modelled at its call site by the effect the         *)
(* notebook relies on.                                                     *)
(*                                                                         *)
(* The second part of the module models PlateauGenerator of                *)
(* CodeAndNotebooks/create_island_topography.ipynb, the cellular automaton *)
(* that grows the initial island on a PGRows x PGCols hex grid.  It has    *)
(* its own variables and its own specification (SpecPG); the evolution     *)
(* loop leaves the generator's variables alone and the generator leaves    *)
(* the loop's.                                                             *)
(***************************************************************************)
EXTENDS Integers, Sequences, FiniteSets, TLC

\* ---------------------------------------------------------------- bounds
NumNodes == 4
MaxIter == 2
PGRows == 4
PGCols == 5

\* ------------------------------------------------------------ parameters
\* The parameter cell, in the model's units: lengths in metres, time and the
\* plot/save intervals in time steps, the fault location as a node index.
\* The parameters a property depends on (extension rate, sea-level noise
\* scale, plate rigidity, save interval) are chosen in Init instead.
num_iter == MaxIter
dt == 1
crust_datum == -15000
unit_wt == 25970
plot_interval == 2
fault_location == 2
area_of_cell == 3

Nodes == 1..NumNodes
CORE == 0
FIXED_VALUE == 1

\* IEEE non-finite values (nan, inf) are one absorbing value.
NaN == -(2^30)

Add(a, b) == IF a = NaN \/ b = NaN THEN NaN ELSE a + b
Sub(a, b) == IF a = NaN \/ b = NaN THEN NaN ELSE a - b
Mul(a, b) == IF a = NaN \/ b = NaN THEN NaN ELSE a * b
\* a comparison with a non-finite operand is False
Gt(a, b) == a # NaN /\ b # NaN /\ a > b
Lt(a, b) == a # NaN /\ b # NaN /\ a < b

Nbrs(n) == {n - 1, n + 1} \cap Nodes

Phases ==
  << "EXTENSION", "LOAD_UPDATE", "FLEXURE", "SEA_LEVEL_UPDATE",
     "LAND_SEA_PARTITION_1", "FLUVIAL_EROSION", "SUBMARINE_DEPOSITION",
     "LAND_SEA_PARTITION_2", "SUBMARINE_DIFFUSION", "BOOKKEEPING" >>

VARIABLES
  cfg,                \* the parameter cell: extension_rate, sea_level_delta, ...
  i, pc, trace,       \* loop counter, next block, blocks run in this iteration
  z, z0, thickness, init_thickness, cum_subs, cum_depo,
  load, deflection, init_deflection,
  status, perimeter_nodes, subaerial, submarine,
  current_sea_level, sea_level,
  qs_in,
  next_plot, next_save, frame_num, save_num,
  \* PlateauGenerator: the node states, the target and the position in go()
  node_state, target_fill_proportion, pg_pc

\* the variables of the evolution loop
loopVars ==
  << cfg, i, pc, trace, z, z0, thickness, init_thickness, cum_subs, cum_depo,
     load, deflection, init_deflection, status, perimeter_nodes, subaerial,
     submarine, current_sea_level, sea_level, qs_in,
     next_plot, next_save, frame_num, save_num >>

\* the variables of the island generator
pgVars == << node_state, target_fill_proportion, pg_pc >>

vars == << loopVars, pgVars >>

gridVars ==
  << z, z0, thickness, init_thickness, cum_subs, cum_depo, load, deflection,
     init_deflection, status, perimeter_nodes, subaerial, submarine, qs_in >>
seaVars == << current_sea_level, sea_level >>
outVars == << next_plot, next_save, frame_num, save_num >>


\* ------------------------------------------------- the loop body's blocks

\* (mutation) the fluvial phase runs before the boundary status is set
NextPhase_FluvialFirst(p) ==
  CASE p = "SEA_LEVEL_UPDATE" -> "FLUVIAL_EROSION"
    [] p = "FLUVIAL_EROSION" -> "LAND_SEA_PARTITION_1"
    [] p = "LAND_SEA_PARTITION_1" -> "SUBMARINE_DEPOSITION"
    [] p = "BOOKKEEPING" -> "OUTPUT"
    [] OTHER -> LET k == CHOOSE j \in 1..Len(Phases) : Phases[j] = p IN Phases[k + 1]

\* the blocks of the loop body in program order (lines 440-484); after the
\* last one comes the plot/save block (487-500)
NextPhase(p) ==
  IF p = "BOOKKEEPING" THEN "OUTPUT"
  ELSE LET k == CHOOSE j \in 1..Len(Phases) : Phases[j] = p IN Phases[k + 1]

\* ListricKinematicExtender (library): nodes beyond the fault trace are the
\* hangingwall; each call adds extension_rate * dt of subsidence there
hangwall == {n \in Nodes : n > fault_location}

ExtenderUpdate(cs, rate) ==
  [n \in Nodes |-> IF n \in hangwall THEN Add(cs[n], Mul(rate, dt)) ELSE cs[n]]

\* (mutation) load[:] = unit_wt * (thickness - cum_subs)
LoadUpdate_AllNodes(ld, st, th, cs) ==
  [n \in Nodes |-> Mul(unit_wt, Sub(th[n], cs[n]))]

\* load[grid.core_nodes] = unit_wt * (thickness - cum_subs)[grid.core_nodes]
LoadUpdate(ld, st, th, cs) ==
  [n \in Nodes |-> IF st[n] = CORE THEN Mul(unit_wt, Sub(th[n], cs[n]))
                   ELSE ld[n]]

\* Flexure.update() (library): the deflection is recomputed in full from the
\* load as a weighted sum over the node and its neighbours; a non-finite load
\* anywhere makes the whole field non-finite.  A rigid plate (flexure = FALSE,
\* the limit of a large elastic thickness) does not deflect.
LoadAt(ld, n) == IF n \in Nodes THEN ld[n] ELSE 0

Flexure(ld, on) ==
  [n \in Nodes |->
     IF \E m \in Nodes : ld[m] = NaN THEN NaN
     ELSE IF ~on THEN 0
     ELSE (LoadAt(ld, n - 1) + 2 * ld[n] + LoadAt(ld, n + 1)) \div (4 * unit_wt)]

\* (mutation) the tectonic subsidence is left out of the elevation
ElevationRecompute_NoSubsidence(th, cs, defl, idefl) ==
  [n \in Nodes |-> Sub(Add(crust_datum, th[n]), Sub(defl[n], idefl[n]))]

\* (mutation) the deflection is used without subtracting its baseline
ElevationRecompute_NoBaseline(th, cs, defl, idefl) ==
  [n \in Nodes |-> Sub(Add(crust_datum, th[n]), Add(cs[n], defl[n]))]

\* (mutation) the baseline deflection is added instead of subtracted
ElevationRecompute_AddsBaseline(th, cs, defl, idefl) ==
  [n \in Nodes |->
     Sub(Add(crust_datum, th[n]), Add(cs[n], Add(defl[n], idefl[n])))]

\* z[:] = crust_datum + thickness - (cum_subs + (deflection - init_deflection))
ElevationRecompute(th, cs, defl, idefl) ==
  [n \in Nodes |->
     Sub(Add(crust_datum, th[n]), Add(cs[n], Sub(defl[n], idefl[n])))]

\* sea_level_random(current_sea_level, delta), r the standard normal draw
RandnDraws == {-1, 0, 1}

\* (mutation) the draw is not scaled by delta
sea_level_random_Unscaled(current, delta, r) == Add(current, r)

sea_level_random(current, delta, r) == Add(current, Mul(delta, r))

\* (mutation) the new value is put in front of the list
HistoryAppend_Prepend(hist, v) == << v >> \o hist

\* sea_level.append(current_sea_level)
HistoryAppend(hist, v) == Append(hist, v)

\* (mutation) z >= current_sea_level
Subaerial_AtOrAbove(zz, sl) == {n \in Nodes : zz[n] # NaN /\ ~Lt(zz[n], sl)}

\* subaerial[:] = z > current_sea_level ; submarine = np.invert(subaerial)
Subaerial(zz, sl) == {n \in Nodes : Gt(zz[n], sl)}

Invert(s) == Nodes \ s

\* grid.status_at_node[submarine] = FIXED_VALUE ; [subaerial] = CORE
Partition1(st, sm, sa) ==
  LET a == [n \in Nodes |-> IF n \in sm THEN FIXED_VALUE ELSE st[n]]
  IN  [n \in Nodes |-> IF n \in sa THEN CORE ELSE a[n]]

\* (mutation) the two assignments in the other order
Partition2_PerimeterFirst(st, sm, per) ==
  LET a == [n \in Nodes |-> IF n \in per THEN FIXED_VALUE ELSE st[n]]
  IN  [n \in Nodes |-> IF n \in sm THEN CORE ELSE a[n]]

\* grid.status_at_node[submarine] = CORE ; [perimeter_nodes] = FIXED_VALUE
Partition2(st, sm, per) ==
  LET a == [n \in Nodes |-> IF n \in sm THEN CORE ELSE st[n]]
  IN  [n \in Nodes |-> IF n \in per THEN FIXED_VALUE ELSE a[n]]

\* FlowAccumulator / ErosionDeposition (library).  Flow leaves a node along
\* the steepest descent; a CORE node with a lower neighbour erodes by the
\* step's erosion rate e, and what it erodes is the sediment influx of its
\* receiver, whatever the receiver's status.  A node without a lower
\* neighbour (a flat, a pit) has no slope and does not erode.
LowerNbrs(zz, n) == {m \in Nbrs(n) : Gt(zz[n], zz[m])}

Receiver(zz, n) ==
  IF LowerNbrs(zz, n) = {} THEN n
  ELSE CHOOSE m \in LowerNbrs(zz, n) :
         \A k \in LowerNbrs(zz, n) : zz[m] < zz[k] \/ (zz[m] = zz[k] /\ m <= k)

Erodes(zz, st, n) == st[n] = CORE /\ Receiver(zz, n) # n

FluvialElevation(zz, st, e) ==
  [n \in Nodes |-> IF Erodes(zz, st, n) THEN Sub(zz[n], e * dt) ELSE zz[n]]

FluvialInflux(zz, st, e) ==
  [n \in Nodes |->
     area_of_cell * e
       * Cardinality({m \in Nodes : Erodes(zz, st, m) /\ Receiver(zz, m) = n})]

\* (mutation) z += depo_rate * dt, at every node
SubmarineDeposit_Everywhere(zz, qs, sm) ==
  [n \in Nodes |-> Add(zz[n], Mul(qs[n] \div area_of_cell, dt))]

\* (mutation) the influx is not divided by the cell area
SubmarineDeposit_NoArea(zz, qs, sm) ==
  [n \in Nodes |-> IF n \in sm THEN Add(zz[n], Mul(qs[n], dt)) ELSE zz[n]]

\* depo_rate = ed._qs_in / grid.area_of_cell[0]
\* z[submarine] += depo_rate[submarine] * dt
SubmarineDeposit(zz, qs, sm) ==
  [n \in Nodes |-> IF n \in sm THEN Add(zz[n], Mul(qs[n] \div area_of_cell, dt))
                   ELSE zz[n]]

\* SimpleSubmarineDiffuser (library): the diffusivity of a node above sea
\* level is negligible, so a link carries sediment only if one of its ends is
\* at or below sea level; it then moves one unit down a drop of two or more.
\* Only CORE nodes are updated.  A non-finite neighbour makes a node
\* non-finite.
Submerged(zz, sl, n) == zz[n] # NaN /\ ~Gt(zz[n], sl)

Flux(zz, sl, a, b) ==
  IF (Submerged(zz, sl, a) \/ Submerged(zz, sl, b)) /\ Gt(zz[a], zz[b] + 1)
  THEN 1 ELSE 0

Diffuse(zz, st, sl) ==
  [n \in Nodes |->
     IF st[n] # CORE THEN zz[n]
     ELSE IF zz[n] = NaN \/ \E m \in Nbrs(n) : zz[m] = NaN THEN NaN
     ELSE zz[n] + Cardinality({m \in Nbrs(n) : Flux(zz, sl, m, n) = 1})
                - Cardinality({m \in Nbrs(n) : Flux(zz, sl, n, m) = 1})]

\* a diffusion step that violates the stability bound leaves non-finite
\* elevations at the CORE nodes in b
BlowUp(zz, st, b) ==
  [n \in Nodes |-> IF n \in b /\ st[n] = CORE THEN NaN ELSE zz[n]]

\* (mutation) cum_depo += z - z0, at every node
CumDepoUpdate_AllNodes(cd, zz, zz0, st) ==
  [n \in Nodes |-> Add(cd[n], Sub(zz[n], zz0[n]))]

\* (mutation) a node whose elevation is not finite is skipped
CumDepoUpdate_FiniteOnly(cd, zz, zz0, st) ==
  [n \in Nodes |-> IF st[n] = CORE /\ zz[n] # NaN THEN Add(cd[n], Sub(zz[n], zz0[n]))
                   ELSE cd[n]]

\* cum_depo[grid.core_nodes] += z[grid.core_nodes] - z0[grid.core_nodes]
CumDepoUpdate(cd, zz, zz0, st) ==
  [n \in Nodes |-> IF st[n] = CORE THEN Add(cd[n], Sub(zz[n], zz0[n]))
                   ELSE cd[n]]

\* (mutation) the thickness is not updated
ThicknessUpdate_Skipped(th, zz, zz0, st) == th

\* thickness[grid.core_nodes] += z[grid.core_nodes] - z0[grid.core_nodes]
ThicknessUpdate(th, zz, zz0, st) ==
  [n \in Nodes |-> IF st[n] = CORE THEN Add(th[n], Sub(zz[n], zz0[n]))
                   ELSE th[n]]

\* (mutation) range(1, num_iter): the last iteration is not run
MoreIterations_OneShort(k) == k + 1 < num_iter

\* for i in range(1, num_iter + 1): after iteration k, is there another one
MoreIterations(k) == k < num_iter

\* (mutation) i*dt > next_save
SaveDue_Strict(k, ns) == k * dt > ns

\* if i*dt >= next_save
SaveDue(k, ns) == k * dt >= ns


\* ------------------------------------------------------------ initial state

InitElevs == {0, 2}

\* a flat grid at uniform elevation 10 m
FlatGrid == [n \in Nodes |-> 10]

\* the grid file's topography: any profile over InitElevs, or the flat grid
InitTopography == [Nodes -> InitElevs] \cup {FlatGrid}

\* the hex grid's boundary conditions as loaded: the outer nodes are open
\* (fixed-value) boundaries, the others core
LoadedStatus == [n \in Nodes |-> IF n \in {1, NumNodes} THEN FIXED_VALUE ELSE CORE]

\* the parameter cell: the values the run is configured with
Configs ==
  [extension_rate : {0, 1}, flexure : BOOLEAN, sea_level_delta : {0, 1},
   save_interval : {1, 2}]

LoopInit ==
  /\ cfg \in Configs
  /\ z \in InitTopography
  /\ i = 0
  /\ pc = "EXTENSION"
  /\ trace = << >>
  /\ z0 = z
  /\ thickness = [n \in Nodes |-> z[n] - crust_datum]
  /\ init_thickness = thickness
  /\ cum_subs = [n \in Nodes |-> 0]
  /\ cum_depo = [n \in Nodes |-> 0]
  /\ load = [n \in Nodes |-> unit_wt * thickness[n]]
  /\ deflection = Flexure(load, cfg.flexure)
  /\ init_deflection = deflection
  /\ status = LoadedStatus
  /\ perimeter_nodes = {n \in Nodes : status[n] # CORE}
  /\ subaerial = {}
  /\ submarine = {}
  /\ current_sea_level = 0
  /\ sea_level = << >>
  /\ qs_in = [n \in Nodes |-> 0]
  /\ next_plot = plot_interval
  /\ next_save = cfg.save_interval
  /\ frame_num = 0
  /\ save_num = 0

\* the island generator is not part of this notebook: no generator object
NoPlateau ==
  /\ node_state = << >>
  /\ target_fill_proportion = << >>
  /\ pg_pc = "none"

Init == LoopInit /\ NoPlateau

\* ------------------------------------------------------------------ actions

Advance(p) ==
  /\ pc = p
  /\ pc' = NextPhase(p)
  /\ trace' = Append(trace, p)
  /\ UNCHANGED pgVars

\* for i in range(1, num_iter + 1): ... ke.run_one_step(dt)
Extension ==
  /\ pc = "EXTENSION"
  /\ MoreIterations(i)
  /\ i' = i + 1
  /\ pc' = NextPhase("EXTENSION")
  /\ trace' = << "EXTENSION" >>
  /\ cum_subs' = ExtenderUpdate(cum_subs, cfg.extension_rate)
  /\ UNCHANGED << cfg, z, z0, thickness, init_thickness, cum_depo, load,
                  deflection, init_deflection, status, perimeter_nodes,
                  subaerial, submarine, qs_in, seaVars, outVars, pgVars >>

LoadUpdatePhase ==
  /\ Advance("LOAD_UPDATE")
  /\ load' = LoadUpdate(load, status, thickness, cum_subs)
  /\ UNCHANGED << cfg, i, z, z0, thickness, init_thickness, cum_subs, cum_depo,
                  deflection, init_deflection, status, perimeter_nodes,
                  subaerial, submarine, qs_in, seaVars, outVars >>

\* fl.update() and the recomputation of z from the fields
FlexurePhase ==
  /\ Advance("FLEXURE")
  /\ deflection' = Flexure(load, cfg.flexure)
  /\ z' = ElevationRecompute(thickness, cum_subs, deflection', init_deflection)
  /\ UNCHANGED << cfg, i, z0, thickness, init_thickness, cum_subs, cum_depo,
                  load, init_deflection, status, perimeter_nodes,
                  subaerial, submarine, qs_in, seaVars, outVars >>

SeaLevelUpdate ==
  /\ Advance("SEA_LEVEL_UPDATE")
  /\ \E r \in RandnDraws :
       current_sea_level' = sea_level_random(current_sea_level, cfg.sea_level_delta, r)
  /\ sea_level' = HistoryAppend(sea_level, current_sea_level')
  /\ UNCHANGED << cfg, i, gridVars, outVars >>

\* subaerial / submarine, z0 = z.copy(), and the boundary status for the
\* fluvial phase
LandSeaPartition1 ==
  /\ Advance("LAND_SEA_PARTITION_1")
  /\ subaerial' = Subaerial(z, current_sea_level)
  /\ submarine' = Invert(subaerial')
  /\ z0' = z
  /\ status' = Partition1(status, submarine', subaerial')
  /\ UNCHANGED << cfg, i, z, thickness, init_thickness, cum_subs, cum_depo,
                  load, deflection, init_deflection, perimeter_nodes, qs_in,
                  seaVars, outVars >>

\* fa.run_one_step() ; ed.run_one_step(dt)
FluvialErosion ==
  /\ Advance("FLUVIAL_EROSION")
  /\ \E e \in {0, 1} :
       /\ z' = FluvialElevation(z, status, e)
       /\ qs_in' = FluvialInflux(z, status, e)
  /\ UNCHANGED << cfg, i, z0, thickness, init_thickness, cum_subs, cum_depo,
                  load, deflection, init_deflection, status, perimeter_nodes,
                  subaerial, submarine, seaVars, outVars >>

SubmarineDeposition ==
  /\ Advance("SUBMARINE_DEPOSITION")
  /\ z' = SubmarineDeposit(z, qs_in, submarine)
  /\ UNCHANGED << cfg, i, z0, thickness, init_thickness, cum_subs, cum_depo,
                  load, deflection, init_deflection, status, perimeter_nodes,
                  subaerial, submarine, qs_in, seaVars, outVars >>

LandSeaPartition2 ==
  /\ Advance("LAND_SEA_PARTITION_2")
  /\ status' = Partition2(status, submarine, perimeter_nodes)
  /\ UNCHANGED << cfg, i, z, z0, thickness, init_thickness, cum_subs, cum_depo,
                  load, deflection, init_deflection, perimeter_nodes,
                  subaerial, submarine, qs_in, seaVars, outVars >>

\* sd.sea_level = current_sea_level ; sd.run_one_step(dt)
SubmarineDiffusion ==
  /\ Advance("SUBMARINE_DIFFUSION")
  /\ z' = Diffuse(z, status, current_sea_level)
  /\ UNCHANGED << cfg, i, z0, thickness, init_thickness, cum_subs, cum_depo,
                  load, deflection, init_deflection, status, perimeter_nodes,
                  subaerial, submarine, qs_in, seaVars, outVars >>

\* the same call when dt violates the diffuser's stability bound: the
\* elevation of a CORE node comes back non-finite
UnstableDiffusion ==
  /\ Advance("SUBMARINE_DIFFUSION")
  /\ \E n \in Nodes : status[n] = CORE /\ z' = BlowUp(z, status, {n})
  /\ UNCHANGED << cfg, i, z0, thickness, init_thickness, cum_subs, cum_depo,
                  load, deflection, init_deflection, status, perimeter_nodes,
                  subaerial, submarine, qs_in, seaVars, outVars >>

Bookkeeping ==
  /\ Advance("BOOKKEEPING")
  /\ cum_depo' = CumDepoUpdate(cum_depo, z, z0, status)
  /\ thickness' = ThicknessUpdate(thickness, z, z0, status)
  /\ UNCHANGED << cfg, i, z, z0, init_thickness, cum_subs, load, deflection,
                  init_deflection, status, perimeter_nodes, subaerial,
                  submarine, qs_in, seaVars, outVars >>

\* if i*dt >= next_plot: ... ; if i*dt >= next_save: ... ; then the loop
\* header: the next iteration, or the end of the run
Output ==
  /\ pc = "OUTPUT"
  /\ pc' = IF MoreIterations(i) THEN "EXTENSION" ELSE "DONE"
  /\ IF i * dt >= next_plot
       THEN frame_num' = frame_num + 1 /\ next_plot' = next_plot + plot_interval
       ELSE UNCHANGED << frame_num, next_plot >>
  /\ IF SaveDue(i, next_save)
       THEN save_num' = save_num + 1 /\ next_save' = next_save + cfg.save_interval
       ELSE UNCHANGED << save_num, next_save >>
  /\ UNCHANGED << cfg, i, trace, gridVars, seaVars, pgVars >>

Next ==
  \/ Extension
  \/ LoadUpdatePhase
  \/ FlexurePhase
  \/ SeaLevelUpdate
  \/ LandSeaPartition1
  \/ FluvialErosion
  \/ SubmarineDeposition
  \/ LandSeaPartition2
  \/ SubmarineDiffusion
  \/ Bookkeeping
  \/ Output

Spec == Init /\ [][Next]_vars

\* the same program when a diffusion step may violate its stability bound
NextNF == Next \/ UnstableDiffusion

SpecNF == Init /\ [][NextNF]_vars


\* ------------------------------------------------- the island generator
\* PlateauGenerator(HexCTS) of create_island_topography.ipynb.  Nodes are
\* numbered row by row from 0, as on a HexModelGrid with node_layout="rect";
\* the rows with an odd index sit half a spacing to the right, so a node has
\* up to six neighbours.  The outer rows and columns are boundary nodes.

number_of_nodes == PGRows * PGCols

PGNodes == 0..(number_of_nodes - 1)

RowOf(n) == n \div PGCols
ColOf(n) == n % PGCols

PGCoreNodes ==
  {n \in PGNodes : /\ RowOf(n) \notin {0, PGRows - 1}
                   /\ ColOf(n) \notin {0, PGCols - 1}}

number_of_core_nodes == Cardinality(PGCoreNodes)

HexAdjacent(a, b) ==
  \/ RowOf(a) = RowOf(b) /\ ColOf(b) \in {ColOf(a) - 1, ColOf(a) + 1}
  \/ /\ RowOf(b) \in {RowOf(a) - 1, RowOf(a) + 1}
     /\ IF RowOf(a) % 2 = 1 THEN ColOf(b) \in {ColOf(a), ColOf(a) + 1}
                            ELSE ColOf(b) \in {ColOf(a) - 1, ColOf(a)}

\* the cell pairs the automaton works on: the links with a core node at one
\* end at least, as << tail, head >>
active_links ==
  {l \in PGNodes \X PGNodes :
     /\ l[1] < l[2]
     /\ HexAdjacent(l[1], l[2])
     /\ l[1] \in PGCoreNodes \/ l[2] \in PGCoreNodes}

\* middle_node = self.grid.number_of_nodes // 2
middle_node == number_of_nodes \div 2

\* (mutation) a pair of "out" cells may turn "in" as well
transition_list_Spontaneous ==
  { << << 0, 1 >>, << 1, 1 >> >>,
    << << 1, 0 >>, << 1, 1 >> >>,
    << << 0, 0 >>, << 1, 1 >> >> }

\* Transition((0, 1, 0), (1, 1, 0), 1.0), Transition((1, 0, 0), (1, 1, 0), 1.0)
\* as << from pair, to pair >>
transition_list ==
  { << << 0, 1 >>, << 1, 1 >> >>,
    << << 1, 0 >>, << 1, 1 >> >> }

\* HexCTS (library): a transition writes the new pair into the two cells of
\* the link; the state of a boundary cell is left as it is
update_node_states(st, tail, head, new) ==
  [n \in PGNodes |->
     IF n = tail /\ n \in PGCoreNodes THEN new[1]
     ELSE IF n = head /\ n \in PGCoreNodes THEN new[2]
     ELSE st[n]]

count_nonzero(st) == Cardinality({n \in PGNodes : st[n] # 0})

\* (mutation) the count is divided by the number of all nodes
BelowTarget_OverAllNodes(st, tgt) ==
  count_nonzero(st) * tgt.den < tgt.num * number_of_nodes

\* prop_filled < self.target_fill_proportion, with
\* prop_filled = count_nonzero(node_state) / number_of_core_nodes and the
\* target the fraction num / den
BelowTarget(st, tgt) ==
  count_nonzero(st) * tgt.den < tgt.num * number_of_core_nodes

\* the target fill proportions a generator is made with: 1/4, 1/2 (the
\* notebook's), 1, and 3/2, which no grid can reach
TargetProportions ==
  { [num |-> 1, den |-> 4], [num |-> 1, den |-> 2],
    [num |-> 1, den |-> 1], [num |-> 3, den |-> 2] }

\* __init__: an all-"out" grid with the middle node "in"
PGInit ==
  /\ node_state = [n \in PGNodes |-> IF n = middle_node THEN 1 ELSE 0]
  /\ target_fill_proportion \in TargetProportions
  /\ pg_pc = "go"

\* the evolution loop has not been started
LoopIdle ==
  /\ LoopInit
  /\ z = FlatGrid
  /\ cfg = [extension_rate |-> 0, flexure |-> FALSE, sea_level_delta |-> 0,
            save_interval |-> 1]

InitPG == LoopIdle /\ PGInit

\* go(): prop_filled = self.proportion_filled() and the test of the while
\* loop
GoTest ==
  /\ pg_pc = "go"
  /\ pg_pc' = IF BelowTarget(node_state, target_fill_proportion)
                 THEN "run" ELSE "returned"
  /\ UNCHANGED << node_state, target_fill_proportion, loopVars >>

\* inside self.run(run_to=...): one transition of the automaton, on a link
\* whose pair of cell states is the "from" pair of a transition
CTSEvent ==
  /\ pg_pc = "run"
  /\ \E l \in active_links, t \in transition_list :
       /\ << node_state[l[1]], node_state[l[2]] >> = t[1]
       /\ node_state' = update_node_states(node_state, l[1], l[2], t[2])
  /\ UNCHANGED << target_fill_proportion, pg_pc, loopVars >>

\* self.run(...) returns when the next event lies beyond run_to; back to the
\* loop test
RunReturns ==
  /\ pg_pc = "run"
  /\ pg_pc' = "go"
  /\ UNCHANGED << node_state, target_fill_proportion, loopVars >>

NextPG ==
  \/ GoTest
  \/ CTSEvent
  \/ RunReturns

\* Every call of run() returns, and go() goes on after it: weak fairness of
\* the two control steps.  Every transition has rate 1, so while a transition
\* is possible in call after call of run(), one is eventually made: strong
\* fairness of the event.
SpecPG ==
  /\ InitPG
  /\ [][NextPG]_vars
  /\ WF_vars(GoTest)
  /\ WF_vars(RunReturns)
  /\ SF_vars(CTSEvent)


\* ------------------------------------------------------------ properties

\* an iteration of the loop has run to the end of its BOOKKEEPING block
StepCompleted == pc \in {"OUTPUT", "DONE"} \/ (pc = "EXTENSION" /\ i >= 1)

Interior == Nodes \ perimeter_nodes

Decomposed(n) ==
  z[n] = crust_datum + thickness[n]
           - (cum_subs[n] + (deflection[n] - init_deflection[n]))

\* C1 as stated: after every completed step the elevation of every node,
\* perimeter nodes included, equals crust_datum + thickness
\* - (cum_subs + (deflection - init_deflection)).
C1_DecompositionEverywhere == StepCompleted => \A n \in Nodes : Decomposed(n)

\* C1 (amended): after every completed step the decomposition holds at every
\* node that is not a perimeter node.  (A perimeter node is not CORE at
\* BOOKKEEPING, so what the fluvial phase or the submarine deposition did to
\* its elevation is not added to its thickness.)
C1_DecompositionInterior == StepCompleted => \A n \in Interior : Decomposed(n)

\* a completed step in which erosion or deposition moved an interior node on
\* the hangingwall that has subsided
C1_Witness ==
  /\ StepCompleted
  /\ \E n \in Interior : z[n] # z0[n] /\ cum_subs[n] > 0

\* C2: within an iteration the ten blocks run once each in program order, and
\* an iteration starts only when the previous one has run all ten.
C2_PhaseOrder ==
  [][ /\ trace' = SubSeq(Phases, 1, Len(trace'))
      /\ (i' = i /\ trace' # trace => trace' = Append(trace, Phases[Len(trace) + 1]))
      /\ (i' # i => /\ i' = i + 1
                    /\ i = 0 \/ trace = Phases
                    /\ trace' = << Phases[1] >>)
      /\ (pc' \in {"OUTPUT", "DONE"} => trace' = Phases) ]_vars

\* the second iteration has run all ten blocks
C2_Witness == i = 2 /\ pc = "OUTPUT" /\ trace = Phases

\* C3 as stated: in the fluvial phase a node is FIXED_VALUE iff its elevation
\* is below the current sea level, and CORE otherwise.
C3_FixedIffBelow ==
  pc = "FLUVIAL_EROSION" =>
    \A n \in Nodes :
      /\ status[n] = FIXED_VALUE <=> Lt(z[n], current_sea_level)
      /\ status[n] = CORE <=> ~Lt(z[n], current_sea_level)

\* C3 (amended): in the fluvial phase a node is CORE iff its elevation is
\* above the current sea level (z > sea level is true) and FIXED_VALUE
\* otherwise: a node exactly at sea level, or one whose elevation is not
\* finite, is FIXED_VALUE.
C3_FixedIffNotAbove ==
  pc = "FLUVIAL_EROSION" =>
    \A n \in Nodes :
      /\ status[n] = CORE <=> Gt(z[n], current_sea_level)
      /\ status[n] = FIXED_VALUE <=> ~Gt(z[n], current_sea_level)

\* the fluvial phase is about to run with a node exactly at sea level, a
\* node above it and a node below it
C3_Witness ==
  /\ pc = "FLUVIAL_EROSION"
  /\ \E n \in Nodes : z[n] = current_sea_level /\ status[n] = FIXED_VALUE
  /\ \E n \in Nodes : Gt(z[n], current_sea_level)
  /\ \E n \in Nodes : Lt(z[n], current_sea_level)

\* C4: from the end of LAND_SEA_PARTITION_2 to the end of the step a node is
\* FIXED_VALUE iff it is one of the perimeter nodes recorded from the loaded
\* grid, and CORE otherwise.
C4_PerimeterOnlyFixed ==
  (pc \in {"SUBMARINE_DIFFUSION", "BOOKKEEPING"} \/ StepCompleted) =>
    \A n \in Nodes :
      /\ status[n] = FIXED_VALUE <=> n \in perimeter_nodes
      /\ status[n] = CORE <=> n \notin perimeter_nodes

\* diffusion is about to run in a step whose fluvial phase had an interior
\* node submarine and a perimeter node subaerial
C4_Witness ==
  /\ pc = "SUBMARINE_DIFFUSION"
  /\ submarine \cap Interior # {}
  /\ subaerial \cap perimeter_nodes # {}
  /\ submarine \cap perimeter_nodes # {}


\* C5: BOOKKEEPING adds z - z0 to cum_depo and to thickness at the nodes that
\* are CORE at that moment and leaves both unchanged at every other node; z0
\* is the elevation copied after the sea-level update.
C5_BookkeepingFrame ==
  [][ /\ (pc = "LAND_SEA_PARTITION_1" =>
            z0' = z /\ Len(sea_level) = i /\ sea_level[i] = current_sea_level)
      /\ (pc = "BOOKKEEPING" =>
            \A n \in Nodes :
              IF status[n] = CORE
                THEN /\ cum_depo'[n] = cum_depo[n] + (z[n] - z0[n])
                     /\ thickness'[n] = thickness[n] + (z[n] - z0[n])
                ELSE /\ cum_depo'[n] = cum_depo[n]
                     /\ thickness'[n] = thickness[n]) ]_vars

\* BOOKKEEPING has run in a step that changed the elevation of a CORE node
\* and of a node that is not CORE
C5_Witness ==
  /\ pc = "OUTPUT"
  /\ \E n \in Nodes : status[n] = CORE /\ z[n] # z0[n] /\ cum_depo[n] # 0
  /\ \E n \in Nodes : status[n] # CORE /\ z[n] # z0[n] /\ cum_depo[n] = 0

RECURSIVE SumOver(_, _)
SumOver(f, S) ==
  IF S = {} THEN 0
  ELSE LET n == CHOOSE m \in S : TRUE IN f[n] + SumOver(f, S \ {n})

CoreNodes == {n \in Nodes : status[n] = CORE}

\* the elevation the run started from (thickness[:] = z - crust_datum)
InitialElevation == [n \in Nodes |-> init_thickness[n] + crust_datum]

NoTectonics == cfg.extension_rate = 0 /\ ~cfg.flexure

\* C6: with extension rate 0 and isostasy disabled, after every completed
\* step the cumulative deposit summed over the CORE nodes equals the change
\* of elevation since the start of the run summed over the same nodes.
C6_DepositIsElevationChange ==
  (NoTectonics /\ StepCompleted) =>
    /\ deflection = init_deflection
    /\ SumOver(cum_depo, CoreNodes)
         = SumOver([n \in Nodes |-> z[n] - InitialElevation[n]], CoreNodes)

\* two steps without tectonics have run and both left a net deposit
C6_Witness ==
  /\ NoTectonics
  /\ pc = "DONE"
  /\ \E n \in CoreNodes : cum_depo[n] >= 2
  /\ SumOver(cum_depo, CoreNodes) # 0

\* C7: each step appends the new current sea level to the end of the history
\* and changes no earlier entry; after k completed steps it has k entries.
C7_HistoryAppendOnly ==
  /\ [](StepCompleted => Len(sea_level) = i)
  /\ [][ IF pc = "SEA_LEVEL_UPDATE"
           THEN /\ Len(sea_level') = Len(sea_level) + 1
                /\ sea_level'[Len(sea_level')] = current_sea_level'
                /\ SubSeq(sea_level', 1, Len(sea_level)) = sea_level
           ELSE /\ sea_level' = sea_level
                /\ current_sea_level' = current_sea_level ]_vars

\* two steps have run and appended two different values
C7_Witness ==
  /\ pc = "DONE"
  /\ Len(sea_level) = 2
  /\ sea_level[1] # sea_level[2]
  /\ sea_level[2] = current_sea_level

AllAbove == \A n \in Nodes : Gt(z[n], current_sea_level)

AfterSeaLevel ==
  pc \in {"LAND_SEA_PARTITION_1", "FLUVIAL_EROSION", "SUBMARINE_DEPOSITION",
          "LAND_SEA_PARTITION_2", "SUBMARINE_DIFFUSION", "BOOKKEEPING"}

SubmarineNoOp == pc \in {"SUBMARINE_DEPOSITION", "SUBMARINE_DIFFUSION"} => z' = z

HasNonFinite == \E n \in Nodes : z[n] = NaN \/ deflection[n] = NaN

\* the block that follows pc in the program text
ProgramSuccessor ==
  CASE pc = "EXTENSION" -> "LOAD_UPDATE"
    [] pc = "LOAD_UPDATE" -> "FLEXURE"
    [] pc = "FLEXURE" -> "SEA_LEVEL_UPDATE"
    [] pc = "SEA_LEVEL_UPDATE" -> "LAND_SEA_PARTITION_1"
    [] pc = "LAND_SEA_PARTITION_1" -> "FLUVIAL_EROSION"
    [] pc = "FLUVIAL_EROSION" -> "SUBMARINE_DEPOSITION"
    [] pc = "SUBMARINE_DEPOSITION" -> "LAND_SEA_PARTITION_2"
    [] pc = "LAND_SEA_PARTITION_2" -> "SUBMARINE_DIFFUSION"
    [] pc = "SUBMARINE_DIFFUSION" -> "BOOKKEEPING"
    [] pc = "BOOKKEEPING" -> "OUTPUT"
    [] pc = "OUTPUT" -> IF i < num_iter THEN "EXTENSION" ELSE "DONE"

\* C9 as stated: once a phase has left a non-finite value in the elevation or
\* the deflection the run stops: nothing runs after it.
C9_AbortsOnNonFinite == [][~HasNonFinite]_vars

\* C9 (amended): the loop makes no finiteness check.  After a phase has left a
\* non-finite elevation or deflection the loop goes on with the next block in
\* program order, BOOKKEEPING adds the non-finite difference to cum_depo and
\* thickness at the CORE nodes concerned, and a save that is due still runs.
C9_RunsOnAfterNonFinite ==
  [][ HasNonFinite =>
        /\ pc' = ProgramSuccessor
        /\ (pc = "BOOKKEEPING" =>
              \A n \in Nodes :
                (status[n] = CORE /\ z[n] = NaN) =>
                  cum_depo'[n] = NaN /\ thickness'[n] = NaN)
        /\ (pc = "OUTPUT" /\ i * dt >= next_save => save_num' = save_num + 1) ]_vars

\* a run has finished whose first step left a non-finite elevation: the second
\* step ran and a grid was saved after it
C9_Witness ==
  /\ pc = "DONE"
  /\ i = num_iter
  /\ sea_level # << >> /\ Len(sea_level) = num_iter
  /\ \A n \in Nodes : z[n] = NaN /\ deflection[n] = NaN
  /\ \E n \in Nodes : cum_depo[n] = NaN /\ thickness[n] = NaN
  /\ save_num = num_iter

FlatRun ==
  /\ InitialElevation = FlatGrid
  /\ cfg.sea_level_delta = 0
  /\ cfg.extension_rate = 0

\* C10: a flat grid at 10 m with sea level fixed at 0 m and no extension: after
\* every step every interior node is still at 10 m and the cumulative deposit
\* is 0 at every node.
C10_FlatGridStaysFlat ==
  (FlatRun /\ StepCompleted) =>
    /\ current_sea_level = 0
    /\ \A n \in Interior : z[n] = 10
    /\ \A n \in Nodes : cum_depo[n] = 0

\* such a run, with a plate that deflects under the load, has finished
C10_Witness ==
  /\ FlatRun
  /\ cfg.flexure
  /\ pc = "DONE"
  /\ i = num_iter
  /\ \E n \in Nodes : init_deflection[n] # 0


\* C12: with sea_level_delta = 0 the sea level stays at its starting value
\* (0) through every update, whatever is drawn, and every entry of the
\* history is that value.
C12_ZeroDeltaConstantSeaLevel ==
  cfg.sea_level_delta = 0 =>
    /\ current_sea_level = 0
    /\ \A k \in 1..Len(sea_level) : sea_level[k] = 0

C12_Witness ==
  cfg.sea_level_delta = 0 /\ pc = "DONE" /\ Len(sea_level) = num_iter


\* the load the baseline deflection was computed from (load[:] = unit_wt *
\* thickness, before the loop)
InitialLoad == [n \in Nodes |-> unit_wt * init_thickness[n]]

LoadMatches(n) == load[n] = unit_wt * (thickness[n] - cum_subs[n])

\* C14 (as stated): after LOAD_UPDATE the load at every node, the perimeter
\* included, is unit_wt * (thickness - cum_subs) of that node.
C14_LoadEverywhere == pc = "FLEXURE" => \A n \in Nodes : LoadMatches(n)

\* C14 (amended): after LOAD_UPDATE the load at every node that is not on the
\* perimeter is unit_wt * (thickness - cum_subs) of that node; the load at a
\* perimeter node is still the load set before the loop.
C14_LoadInterior ==
  pc = "FLEXURE" =>
    /\ \A n \in Interior : LoadMatches(n)
    /\ \A n \in perimeter_nodes : load[n] = InitialLoad[n]

C14_Witness ==
  /\ pc = "FLEXURE"
  /\ \E n \in perimeter_nodes : cum_subs[n] > 0
  /\ \E n \in Interior : load[n] # InitialLoad[n]


\* C15: the SUBMARINE_DEPOSITION block adds (qs_in / cell area) * dt to the
\* elevation of exactly the nodes that are FIXED_VALUE for the fluvial phase,
\* and leaves the elevation of every other node as it was.
C15_DepositionFrame ==
  [][pc = "SUBMARINE_DEPOSITION" =>
       \A n \in Nodes :
         z'[n] = IF status[n] = FIXED_VALUE
                   THEN z[n] + (qs_in[n] \div area_of_cell) * dt
                   ELSE z[n]]_vars

C15_Witness ==
  /\ pc = "LAND_SEA_PARTITION_2"
  /\ \E n \in submarine : z[n] > z0[n]
  /\ \E n \in subaerial : qs_in[n] > 0


\* C16 (as stated): whenever the load passed to the flexure update is the
\* load the baseline was captured with, deflection - init_deflection is 0 at
\* every node and the recomputed elevation is the initial elevation at every
\* node.
C16_BaselineCancels ==
  pc = "SEA_LEVEL_UPDATE" /\ load = InitialLoad =>
    /\ \A n \in Nodes : deflection[n] - init_deflection[n] = 0
    /\ z = InitialElevation

\* C16 (amended): whenever the load passed to the flexure update is the load
\* the baseline was captured with, deflection - init_deflection is 0 at every
\* node, the recomputed elevation is the initial elevation at every node that
\* is not on the perimeter, and at a perimeter node it is the initial
\* elevation less the subsidence accrued there.
C16_BaselineCancelsOffPerimeter ==
  pc = "SEA_LEVEL_UPDATE" /\ load = InitialLoad =>
    /\ \A n \in Nodes : deflection[n] - init_deflection[n] = 0
    /\ \A n \in Interior : z[n] = InitialElevation[n]
    /\ \A n \in perimeter_nodes : z[n] = InitialElevation[n] - cum_subs[n]

C16_Witness ==
  /\ pc = "SEA_LEVEL_UPDATE"
  /\ load = InitialLoad
  /\ i >= 2
  /\ \E n \in perimeter_nodes : cum_subs[n] > 0


\* C17: the run ends, and only after exactly num_iter complete iterations:
\* every state before the end has a next block to run, and at the end the
\* loop counter is num_iter, the last iteration ran all its blocks and the
\* sea-level history has num_iter entries.
C17_ExactlyNumIterations ==
  /\ pc = "DONE" => i = num_iter /\ trace = Phases /\ Len(sea_level) = num_iter
  /\ pc # "DONE" => ENABLED Next

C17_Witness == pc = "DONE" /\ i = num_iter /\ Len(sea_level) = num_iter


\* the plot/save block of an iteration has run
AfterOutput == pc = "DONE" \/ (pc = "EXTENSION" /\ i >= 1)

\* C18: a snapshot is written only by the block that follows BOOKKEEPING, one
\* at a time with the snapshot number going up by 1 (from 0, so the first is
\* number 1), and with save_interval >= dt the number written after i
\* iterations is floor(i * dt / save_interval).
C18_SnapshotSchedule ==
  /\ [](AfterOutput /\ cfg.save_interval >= dt =>
          save_num = (i * dt) \div cfg.save_interval)
  /\ [][save_num' # save_num =>
          /\ pc = "OUTPUT" /\ trace = Phases
          /\ save_num' = save_num + 1
          /\ i' = i]_vars

C18_Witness == pc = "DONE" /\ cfg.save_interval = 2 /\ save_num = 1


\* the cells in state 1 ("in")
InNodes == {n \in PGNodes : node_state[n] = 1}

\* the most cells that can be "in": every core cell, and the middle cell
MaxFilled == Cardinality(PGCoreNodes \cup {middle_node})

\* the targets that filling every such cell meets
ReachableTargets ==
  {t \in TargetProportions : t.num * number_of_core_nodes <= t.den * MaxFilled}

ReachableTarget == target_fill_proportion \in ReachableTargets

\* the count of "in" cells meets the target t
MeetsTarget(t) == Cardinality(InNodes) * t.den >= t.num * number_of_core_nodes

RECURSIVE ClusterOf(_)
\* the "in" cells that a chain of adjacent "in" cells joins to a cell of S
ClusterOf(S) ==
  LET T == S \cup {n \in InNodes : \E m \in S : HexAdjacent(m, n)}
  IN  IF T = S THEN S ELSE ClusterOf(T)

\* C19: the "in" cells are one connected cluster that holds the middle cell;
\* a cell only ever goes from 0 to 1, and only next to a cell that is 1.
C19_SingleCluster ==
  /\ [](middle_node \in InNodes /\ ClusterOf({middle_node}) = InNodes)
  /\ [][\A n \in PGNodes :
          node_state'[n] # node_state[n] =>
            /\ node_state[n] = 0 /\ node_state'[n] = 1
            /\ \E m \in InNodes : HexAdjacent(m, n)]_vars

C19_Witness ==
  /\ Cardinality(InNodes) >= 4
  /\ \E n \in InNodes : n # middle_node /\ ~HexAdjacent(middle_node, n)

====
